---- MODULE Spec2Model ----
(***************************************************************************)
(* State-machine model of ea_fc25_scraper/index.py: the pagination driver  *)
(* fetch_all_pages with its on-disk page cache, the page fetcher           *)
(* fetch_page, and main's save_json / compress_json pipeline, over any     *)
(* number of successive runs of main that share the cache directory and    *)
(* the output files.                                                       *)
(*                                                                         *)
(* The server is the environment: each request is answered either by an    *)
(* HTTP/network error or by a JSON body, chosen freely at the moment of    *)
(* the request; what it answered is logged per run in `served`.            *)
(***************************************************************************)
EXTENDS Integers, Sequences, FiniteSets, TLC

\* ------------------------------------------------------------ constants

\* "limit": 100 of the request parameters
PAGE_LIMIT == 100

\* the 100 of `len(page_data["items"]) < 100`
SHORT_PAGE_BELOW == 100

\* the 100 of `offset += 100`
OFFSET_STEP == 100

\* Number of pages the model lets a run walk: the loop has no bound of its
\* own, so the step to the next offset is cut off beyond this many pages.
MaxPages == 2

MaxOffset == (MaxPages - 1) * OFFSET_STEP

\* Sizes of the `items` list a body may carry: empty, short, exactly the
\* limit, and one more than the limit (a server that ignores `limit`).
PageSizes == {0, 50, PAGE_LIMIT, PAGE_LIMIT + 1}

\* ------------------------------------------------------------ data

\* The i-th record the server holds from offset o on (records are opaque to
\* the program; the model gives each a number).
ItemAt(o, i) == 100 + o + i

\* A JSON body with an `items` list of n records, and its other fields.
PageBody(o, n) == [meta |-> o, items |-> [i \in 1..n |-> ItemAt(o, i)]]

\* A JSON body without an `items` field.
NoItemsBody(o) == [meta |-> o]

\* The bodies a 2xx response for offset o may carry.
OkBodies(o) == {NoItemsBody(o)} \cup {PageBody(o, n) : n \in PageSizes}

\* page_data before any page was resolved
NoPage == [none |-> TRUE]

\* What the server answered: a 2xx with a body, or an error.
OkResponse(body) == [ok |-> TRUE, body |-> body]
ErrResponse == [ok |-> FALSE]

VARIABLES
    cache,          \* CACHE_DIR: offset -> body, for the offsets that have a file
    pc,             \* position of main / fetch_all_pages
    skip_cache,     \* the flag of the current run
    offset,         \* fetch_all_pages' offset
    all_data,       \* fetch_all_pages' accumulator
    page_data,      \* fetch_all_pages' page_data
    outcome,        \* "FETCHING", "DONE", "ABORTED", or "FATAL" (uncaught exception)
    inFlight,       \* offsets with a request awaiting its response
    reqs,           \* offsets requested over the network in this run, in order
    resolved,       \* pages resolved in this run, in order: [offset, src, page]
    served,         \* what the server answered in this run: offset -> response
    outFile,        \* content of OUTPUT_FILE (bytes), <<>> when absent
    gzFile,         \* content of COMPRESSED_OUTPUT_FILE (bytes), <<>> when absent
    plainFile,      \* output of decompress_json (bytes)
    saveCalls,      \* calls of save_json in this run
    compressCalls,  \* calls of compress_json in this run
    prev            \* the previous run of main, if it ran to its end (SpecMask:
                    \* the setup of the two executions and the first one's end)

vars == <<cache, pc, skip_cache, offset, all_data, page_data, outcome, inFlight,
          reqs, resolved, served, outFile, gzFile, plainFile, saveCalls,
          compressCalls, prev>>

\* ------------------------------------------------------------ helpers

EmptyFn == [x \in {} |-> 0]

\* f with key k set to v (k added when absent)
Put(f, k, v) == [x \in (DOMAIN f) \cup {k} |-> IF x = k THEN v ELSE f[x]]

\* os.path.exists(cache_file)
CacheExists(c, o) == o \in DOMAIN c

\* the flag not looked at: an existing entry is always read
UseCache_IgnoreFlag(skip, c, o) == CacheExists(c, o)

\* the `not` left out: the cache is read only when it is to be skipped
UseCache_Inverted(skip, c, o) == skip /\ CacheExists(c, o)

\* a cached page is trusted only when it is a full one: a short page may
\* have grown on the server, so it is fetched again
UseCache_FullOnly(skip, c, o) ==
    (~skip) /\ CacheExists(c, o) /\ "items" \in DOMAIN c[o] /\ Len(c[o].items) >= 100

\* `not skip_cache and os.path.exists(cache_file)`
UseCache(skip, c, o) == (~skip) /\ CacheExists(c, o)

\* the file name does not depend on the offset: every page goes to page_0
WriteCache_SameFile(c, o, body) == Put(c, 0, body)

\* only the `items` of the page are written to the cache file
WriteCache_ItemsOnly(c, o, body) ==
    Put(c, o, IF "items" \in DOMAIN body THEN [items |-> body.items] ELSE body)

\* open(cache_file, "w"); json.dump(page_data, f): creates or overwrites
WriteCache(c, o, body) == Put(c, o, body)

\* page_data["items"] raises KeyError when the field is absent
HasItems(body) == "items" \in DOMAIN body

\* the new page's records put in front of the accumulated ones
Extend_Prepend(acc, items) == items \o acc

\* all_data.extend(items)
Extend(acc, items) == acc \o items

\* the comparison turned round: the loop stops on a page of more than 100
IsLastPage_Reversed(body) == Len(body.items) > SHORT_PAGE_BELOW

\* the loop stops on an empty page only
IsLastPage_OnlyEmpty(body) == Len(body.items) = 0

\* any page that is not exactly the limit ends the loop
IsLastPage_NotExact(body) == Len(body.items) # PAGE_LIMIT

\* `len(page_data["items"]) < 100`
IsLastPage(body) == Len(body.items) < SHORT_PAGE_BELOW

\* the page number is advanced instead of the record offset
NextOffset_PageNumber(o) == o + 1

\* `offset += 100`
NextOffset(o) == o + OFFSET_STEP

\* ------------------------------------------------------------ save_json

\* decimal digits of a number, as bytes
RECURSIVE Digits(_)
Digits(n) == IF n < 10 THEN <<48 + n>> ELSE Digits(n \div 10) \o <<48 + (n % 10)>>

\* one record, as json.dump writes it at indent level 1: two spaces, the value
EncodeItem(x) == <<32, 32>> \o Digits(x)

\* records lo..hi of data, joined by ",\n"
RECURSIVE JoinItems(_, _, _)
JoinItems(data, lo, hi) ==
    IF lo = hi THEN EncodeItem(data[lo])
    ELSE LET mid == (lo + hi) \div 2
         IN  JoinItems(data, lo, mid) \o <<44, 10>> \o JoinItems(data, mid + 1, hi)

\* json.dump(data, f, indent=2) of a list: "[]" when empty, else "[\n", the
\* records one per line, "\n]"
JsonDump(data) ==
    IF Len(data) = 0 THEN <<91, 93>>
    ELSE <<91, 10>> \o JoinItems(data, 1, Len(data)) \o <<10, 93>>

\* ------------------------------------------------------------ compress_json

\* a "\n" among bytes lo..hi of b
HasNewline(b, lo, hi) == \E k \in lo..hi : b[k] = 10

\* the first "\n" of b at or after lo
FirstNewline(b, lo, hi) ==
    CHOOSE k \in lo..hi : b[k] = 10 /\ \A j \in lo..(k - 1) : b[j] # 10

\* the last "\n" of b at or before hi
LastNewline(b, lo, hi) ==
    CHOOSE k \in lo..hi : b[k] = 10 /\ \A j \in (k + 1)..hi : b[j] # 10

\* iteration over a binary file: the lines of bytes lo..hi (lo starts a
\* line), each with its terminating "\n"; the last may have none. The range
\* is cut at a line end near its middle, which gives the same lines as
\* reading them one after the other.
RECURSIVE FileLines(_, _, _)
FileLines(b, lo, hi) ==
    IF lo > hi THEN <<>>
    ELSE IF ~HasNewline(b, lo, hi - 1) THEN <<SubSeq(b, lo, hi)>>
    ELSE LET mid == (lo + hi) \div 2
             cut == IF HasNewline(b, mid, hi - 1)
                    THEN FirstNewline(b, mid, hi - 1)
                    ELSE LastNewline(b, lo, mid - 1)
         IN  FileLines(b, lo, cut) \o FileLines(b, cut + 1, hi)

\* f_out.writelines(lines): every line written in order, nothing added
RECURSIVE WriteLines(_, _, _)
WriteLines(lines, lo, hi) ==
    IF lo > hi THEN <<>>
    ELSE IF lo = hi THEN lines[lo]
    ELSE LET mid == (lo + hi) \div 2
         IN  WriteLines(lines, lo, mid) \o WriteLines(lines, mid + 1, hi)

\* gzip member around the written data: magic and method, one stored deflate
\* block (final-block header, LEN, NLEN, the data), ISIZE (the length; the
\* files of the model are far shorter than 2^16 bytes)
GzipStream(data) ==
    <<31, 139, 8>> \o <<1, Len(data) % 65536, 65535 - (Len(data) % 65536)>>
                  \o data \o <<Len(data)>>

GzipValid(z) ==
    /\ Len(z) >= 7
    /\ z[1] = 31 /\ z[2] = 139 /\ z[3] = 8
    /\ z[4] = 1
    /\ z[5] = (Len(z) - 7) % 65536
    /\ z[6] = 65535 - z[5]
    /\ z[Len(z)] = Len(z) - 7

\* what reading the gzip file yields
GzipData(z) == SubSeq(z, 7, Len(z) - 1)

\* only the first line of the input is read and written
CompressBytes_FirstLine(b) ==
    LET lines == FileLines(b, 1, Len(b))
    IN  GzipStream(IF Len(lines) = 0 THEN <<>> ELSE lines[1])

\* compress_json: content of output_file for an input_file holding b
CompressBytes(b) ==
    LET lines == FileLines(b, 1, Len(b)) IN GzipStream(WriteLines(lines, 1, Len(lines)))

\* decompress_json: content of output_file for a gzip input_file holding z
DecompressBytes(z) ==
    LET data == GzipData(z)
        lines == FileLines(data, 1, Len(data))
    IN  WriteLines(lines, 1, Len(lines))

\* ------------------------------------------------------------ initial state

\* No run has happened: the cache directory and the output files are absent.
NoPrev == [outcome |-> "NONE"]

Init ==
    /\ cache = EmptyFn
    /\ pc = "idle"
    /\ skip_cache = FALSE
    /\ offset = 0
    /\ all_data = <<>>
    /\ page_data = NoPage
    /\ outcome = "NONE"
    /\ inFlight = {}
    /\ reqs = <<>>
    /\ resolved = <<>>
    /\ served = EmptyFn
    /\ outFile = <<>>
    /\ gzFile = <<>>
    /\ plainFile = <<>>
    /\ saveCalls = 0
    /\ compressCalls = 0
    /\ prev = NoPrev

\* ------------------------------------------------------------ main, fetch_all_pages

\* What is remembered of a run of main that ran to its end, when the next
\* run starts: how fetch_all_pages ended, its flag, the list it returned,
\* the output file it wrote, and what the server answered in it.
RunSummary ==
    [outcome |-> outcome, skip |-> skip_cache, result |-> all_data,
     outFile |-> outFile, served |-> served]

\* `python index.py [--skip-cache]`: main calls fetch_all_pages, which sets
\* all_data = [] and offset = 0 and enters the loop. A run starts when no
\* other is in progress (the process is single-instance).
StartRun(skip) ==
    /\ pc \in {"idle", "done", "crashed"}
    /\ prev' = (IF pc = "done" THEN RunSummary ELSE NoPrev)
    /\ skip_cache' = skip
    /\ all_data' = <<>>
    /\ offset' = 0
    /\ page_data' = NoPage
    /\ outcome' = "FETCHING"
    /\ reqs' = <<>>
    /\ resolved' = <<>>
    /\ served' = EmptyFn
    /\ saveCalls' = 0
    /\ compressCalls' = 0
    /\ pc' = "loop"
    /\ UNCHANGED <<cache, inFlight, outFile, gzFile, plainFile>>

\* Loop top, cache branch: the file exists and the cache is enabled, so the
\* page is read from it.
CacheRead ==
    /\ pc = "loop"
    /\ UseCache(skip_cache, cache, offset)
    /\ page_data' = cache[offset]
    /\ resolved' = Append(resolved, [offset |-> offset, src |-> "cache", page |-> cache[offset]])
    /\ pc' = "accumulate"
    /\ UNCHANGED <<cache, skip_cache, offset, all_data, outcome, inFlight, reqs,
                   served, outFile, gzFile, plainFile, saveCalls, compressCalls, prev>>

\* Loop top, network branch: fetch_page issues the GET and awaits it.
SendRequest ==
    /\ pc = "loop"
    /\ ~UseCache(skip_cache, cache, offset)
    /\ inFlight' = inFlight \cup {offset}
    /\ reqs' = Append(reqs, offset)
    /\ pc' = "await"
    /\ UNCHANGED <<cache, skip_cache, offset, all_data, page_data, outcome, resolved,
                   served, outFile, gzFile, plainFile, saveCalls, compressCalls, prev>>

\* The response is a 2xx with a JSON body: fetch_page returns it.
FetchOk(body) ==
    /\ pc = "await"
    /\ page_data' = body
    /\ served' = Put(served, offset, OkResponse(body))
    /\ inFlight' = inFlight \ {offset}
    /\ pc' = "persist"
    /\ UNCHANGED <<cache, skip_cache, offset, all_data, outcome, reqs, resolved,
                   outFile, gzFile, plainFile, saveCalls, compressCalls, prev>>

\* On a failed request the cache entry of the offset is removed.
FetchError_DropsEntry ==
    /\ pc = "await"
    /\ served' = Put(served, offset, ErrResponse)
    /\ inFlight' = inFlight \ {offset}
    /\ cache' = [o \in (DOMAIN cache) \ {offset} |-> cache[o]]
    /\ outcome' = "ABORTED"
    /\ pc' = "returned"
    /\ UNCHANGED <<skip_cache, offset, all_data, page_data, reqs, resolved,
                   outFile, gzFile, plainFile, saveCalls, compressCalls, prev>>

\* No `except aiohttp.ClientError`: the error leaves fetch_all_pages.
FetchError_Uncaught ==
    /\ pc = "await"
    /\ served' = Put(served, offset, ErrResponse)
    /\ inFlight' = inFlight \ {offset}
    /\ outcome' = "FATAL"
    /\ pc' = "crashed"
    /\ UNCHANGED <<cache, skip_cache, offset, all_data, page_data, reqs, resolved,
                   outFile, gzFile, plainFile, saveCalls, compressCalls, prev>>

\* A failed request is sent once more before the loop gives up.
FetchError_RetryOnce ==
    /\ pc = "await"
    /\ served' = Put(served, offset, ErrResponse)
    /\ inFlight' = inFlight \ {offset}
    /\ IF Cardinality({i \in 1..Len(reqs) : reqs[i] = offset}) < 2
       THEN outcome' = outcome /\ pc' = "loop"
       ELSE outcome' = "ABORTED" /\ pc' = "returned"
    /\ UNCHANGED <<cache, skip_cache, offset, all_data, page_data, reqs, resolved,
                   outFile, gzFile, plainFile, saveCalls, compressCalls, prev>>

\* The request fails (raise_for_status on a non-2xx, or a connection error):
\* aiohttp.ClientError is caught, reported, and the loop is left by `break`;
\* fetch_all_pages returns all_data.
FetchError ==
    /\ pc = "await"
    /\ served' = Put(served, offset, ErrResponse)
    /\ inFlight' = inFlight \ {offset}
    /\ outcome' = "ABORTED"
    /\ pc' = "returned"
    /\ UNCHANGED <<cache, skip_cache, offset, all_data, page_data, reqs, resolved,
                   outFile, gzFile, plainFile, saveCalls, compressCalls, prev>>

\* The payload is checked before it is cached: one without `items` is not
\* written.
PersistPage_ChecksSchema ==
    /\ pc = "persist"
    /\ cache' = (IF HasItems(page_data) THEN WriteCache(cache, offset, page_data) ELSE cache)
    /\ resolved' = Append(resolved, [offset |-> offset, src |-> "net", page |-> page_data])
    /\ pc' = "accumulate"
    /\ UNCHANGED <<skip_cache, offset, all_data, page_data, outcome, inFlight, reqs,
                   served, outFile, gzFile, plainFile, saveCalls, compressCalls, prev>>

\* os.makedirs and the write of the cache file succeed.
PersistPage ==
    /\ pc = "persist"
    /\ cache' = WriteCache(cache, offset, page_data)
    /\ resolved' = Append(resolved, [offset |-> offset, src |-> "net", page |-> page_data])
    /\ pc' = "accumulate"
    /\ UNCHANGED <<skip_cache, offset, all_data, page_data, outcome, inFlight, reqs,
                   served, outFile, gzFile, plainFile, saveCalls, compressCalls, prev>>

\* `except Exception`: a failed cache write is handled like a failed request.
PersistFail_Caught ==
    /\ pc = "persist"
    /\ outcome' = "ABORTED"
    /\ pc' = "returned"
    /\ UNCHANGED <<cache, skip_cache, offset, all_data, page_data, inFlight, reqs,
                   resolved, served, outFile, gzFile, plainFile, saveCalls,
                   compressCalls, prev>>

\* os.makedirs or open(cache_file, "w") raises OSError: not a ClientError,
\* so it leaves fetch_all_pages and main.
PersistFail ==
    /\ pc = "persist"
    /\ outcome' = "FATAL"
    /\ pc' = "crashed"
    /\ UNCHANGED <<cache, skip_cache, offset, all_data, page_data, inFlight, reqs,
                   resolved, served, outFile, gzFile, plainFile, saveCalls,
                   compressCalls, prev>>

\* all_data.extend(page_data["items"]); the page is short: break, return.
AccumulateLast ==
    /\ pc = "accumulate"
    /\ HasItems(page_data)
    /\ IsLastPage(page_data)
    /\ all_data' = Extend(all_data, page_data.items)
    /\ outcome' = "DONE"
    /\ pc' = "returned"
    /\ UNCHANGED <<cache, skip_cache, offset, page_data, inFlight, reqs, resolved,
                   served, outFile, gzFile, plainFile, saveCalls, compressCalls, prev>>

\* all_data.extend(page_data["items"]); the page is not short: offset += 100
\* and the loop goes on (in the model, while the next offset is within MaxOffset).
AccumulateMore ==
    /\ pc = "accumulate"
    /\ HasItems(page_data)
    /\ ~IsLastPage(page_data)
    /\ NextOffset(offset) <= MaxOffset
    /\ all_data' = Extend(all_data, page_data.items)
    /\ offset' = NextOffset(offset)
    /\ pc' = "loop"
    /\ UNCHANGED <<cache, skip_cache, page_data, outcome, inFlight, reqs, resolved,
                   served, outFile, gzFile, plainFile, saveCalls, compressCalls, prev>>

\* page_data["items"] raises KeyError: it leaves fetch_all_pages and main.
AccumulateKeyError ==
    /\ pc = "accumulate"
    /\ ~HasItems(page_data)
    /\ outcome' = "FATAL"
    /\ pc' = "crashed"
    /\ UNCHANGED <<cache, skip_cache, offset, all_data, page_data, inFlight, reqs,
                   resolved, served, outFile, gzFile, plainFile, saveCalls,
                   compressCalls, prev>>

\* main writes an empty list when the fetch was cut short by an error
SaveJson_DropsPartial ==
    /\ pc = "returned"
    /\ outFile' = (IF outcome = "ABORTED" THEN JsonDump(<<>>) ELSE JsonDump(all_data))
    /\ saveCalls' = saveCalls + 1
    /\ pc' = "saved"
    /\ UNCHANGED <<cache, skip_cache, offset, all_data, page_data, outcome, inFlight,
                   reqs, resolved, served, gzFile, plainFile, compressCalls, prev>>

\* main: save_json(all_data, OUTPUT_FILE)
SaveJson ==
    /\ pc = "returned"
    /\ outFile' = JsonDump(all_data)
    /\ saveCalls' = saveCalls + 1
    /\ pc' = "saved"
    /\ UNCHANGED <<cache, skip_cache, offset, all_data, page_data, outcome, inFlight,
                   reqs, resolved, served, gzFile, plainFile, compressCalls, prev>>

\* main: compress_json(OUTPUT_FILE, COMPRESSED_OUTPUT_FILE)
CompressJson ==
    /\ pc = "saved"
    /\ gzFile' = CompressBytes(outFile)
    /\ compressCalls' = compressCalls + 1
    /\ pc' = "done"
    /\ UNCHANGED <<cache, skip_cache, offset, all_data, page_data, outcome, inFlight,
                   reqs, resolved, served, outFile, plainFile, saveCalls, prev>>

Next ==
    \/ \E skip \in BOOLEAN : StartRun(skip)
    \/ CacheRead
    \/ SendRequest
    \/ \E body \in OkBodies(offset) : FetchOk(body)
    \/ FetchError
    \/ PersistPage
    \/ PersistFail
    \/ AccumulateLast
    \/ AccumulateMore
    \/ AccumulateKeyError
    \/ SaveJson
    \/ CompressJson

Spec == Init /\ [][Next]_vars

\* fetch_all_pages is a single sequential task: a step of it that is
\* possible is taken. Nothing is assumed of the server (a response may never
\* come) nor of when main is run.
FairSpec ==
    /\ Spec
    /\ WF_vars(CacheRead)
    /\ WF_vars(SendRequest)
    /\ WF_vars(PersistPage \/ PersistFail)
    /\ WF_vars(AccumulateLast)
    /\ WF_vars(AccumulateMore)
    /\ WF_vars(AccumulateKeyError)

\* ------------------------------------------------------------ the file functions alone

\* Longest list of the small inputs below.
MaxLen == 3

\* Records of one, two and four digits.
SampleItems == {7, 42, 1234}

\* Lists handed to save_json: every list of at most MaxLen sample records,
\* and the `items` of one page of each size.
SampleLists ==
    UNION {[1..n -> SampleItems] : n \in 0..MaxLen}
        \cup {PageBody(0, n).items : n \in PageSizes}

\* save_json, compress_json and decompress_json called one after the other
\* on a list, as the tests of the three functions do.
InitFiles ==
    /\ all_data \in SampleLists
    /\ pc = "files"
    /\ cache = EmptyFn
    /\ skip_cache = FALSE
    /\ offset = 0
    /\ page_data = NoPage
    /\ outcome = "NONE"
    /\ inFlight = {}
    /\ reqs = <<>>
    /\ resolved = <<>>
    /\ served = EmptyFn
    /\ outFile = <<>>
    /\ gzFile = <<>>
    /\ plainFile = <<>>
    /\ saveCalls = 0
    /\ compressCalls = 0
    /\ prev = NoPrev

\* save_json(data, filename)
FilesSave ==
    /\ pc = "files"
    /\ outFile' = JsonDump(all_data)
    /\ pc' = "files_saved"
    /\ UNCHANGED <<cache, skip_cache, offset, all_data, page_data, outcome, inFlight,
                   reqs, resolved, served, gzFile, plainFile, saveCalls,
                   compressCalls, prev>>

\* compress_json(input_file, output_file)
FilesCompress ==
    /\ pc = "files_saved"
    /\ gzFile' = CompressBytes(outFile)
    /\ pc' = "files_compressed"
    /\ UNCHANGED <<cache, skip_cache, offset, all_data, page_data, outcome, inFlight,
                   reqs, resolved, served, outFile, plainFile, saveCalls,
                   compressCalls, prev>>

\* decompress_json(input_file, output_file), on a well-formed gzip file
FilesDecompress ==
    /\ pc = "files_compressed"
    /\ GzipValid(gzFile)
    /\ plainFile' = DecompressBytes(gzFile)
    /\ pc' = "files_decompressed"
    /\ UNCHANGED <<cache, skip_cache, offset, all_data, page_data, outcome, inFlight,
                   reqs, resolved, served, outFile, gzFile, saveCalls,
                   compressCalls, prev>>

NextFiles == FilesSave \/ FilesCompress \/ FilesDecompress

SpecFiles == InitFiles /\ [][NextFiles]_vars

\* ------------------------------------------------------------ properties

\* the last page resolved in this run
LastResolved == resolved[Len(resolved)]

\* the `items` lists of the pages ps[1..n], concatenated
RECURSIVE ItemsOf(_, _)
ItemsOf(ps, n) == IF n = 0 THEN <<>> ELSE ItemsOf(ps, n - 1) \o ps[n].page.items

\* C1: pagination terminates. Once the page resolved for the current offset
\* (from the cache or from the network) carries an `items` list of fewer than
\* 100 records, empty included, fetch_all_pages ends in DONE and returns to
\* main.
C1_ShortPageResolved ==
    /\ pc = "accumulate"
    /\ Len(resolved) > 0
    /\ "items" \in DOMAIN LastResolved.page
    /\ Len(LastResolved.page.items) < 100

C1_Terminates == C1_ShortPageResolved ~> (pc = "returned" /\ outcome = "DONE")

\* A run that ended in DONE on an empty page that followed a full one.
C1_Witness ==
    /\ pc = "returned" /\ outcome = "DONE"
    /\ Len(resolved) = 2
    /\ Len(resolved[1].page.items) = 100
    /\ resolved[2].page.items = <<>>

\* fetch_all_pages has returned to main (main may have gone on since)
Returned == pc \in {"returned", "saved", "done"}

\* C2: when fetch_all_pages has returned without a fetch error, the pages it
\* resolved are those of offsets 0, 100, 200, ... in that order, each as its
\* source (cache file or response) held it, all but the last with at least
\* 100 records and the last with fewer, and the returned list is their
\* `items` concatenated in that order, record by record.
C2_Concatenation ==
    (Returned /\ outcome = "DONE") =>
        /\ Len(resolved) >= 1
        /\ \A k \in 1..Len(resolved) :
              /\ resolved[k].offset = (k - 1) * 100
              /\ "items" \in DOMAIN resolved[k].page
              /\ (k < Len(resolved)) => Len(resolved[k].page.items) >= 100
              /\ (k = Len(resolved)) => Len(resolved[k].page.items) < 100
              /\ resolved[k].src = "net" =>
                    resolved[k].page = served[resolved[k].offset].body
              /\ resolved[k].src = "cache" =>
                    resolved[k].page = cache[resolved[k].offset]
        /\ all_data = ItemsOf(resolved, Len(resolved))

\* A run returned 150 records: a page of 100 at offset 0, one of 50 at 100.
C2_Witness ==
    /\ Returned /\ outcome = "DONE"
    /\ Len(resolved) = 2
    /\ Len(resolved[1].page.items) = 100
    /\ Len(resolved[2].page.items) = 50
    /\ Len(all_data) = 150

\* offsets requested over the network in this run
Requested == {reqs[i] : i \in 1..Len(reqs)}

\* C3: with skip_cache = false, when the loop reaches an offset that has a
\* cache entry, its step takes the entry as page_data and issues no
\* request; and a page the previous run fetched is, when this run reaches its
\* offset, resolved from the cache with the content fetched then, without a
\* request for that offset.
C3_HitStep ==
    (pc = "loop" /\ ~skip_cache /\ offset \in DOMAIN cache) =>
        /\ pc' = "accumulate"
        /\ page_data' = cache[offset]
        /\ reqs' = reqs
        /\ inFlight' = inFlight
        /\ cache' = cache

C3_AcrossRuns ==
    (~skip_cache /\ prev # NoPrev) =>
        \A k \in 1..Len(resolved) :
            LET o == resolved[k].offset IN
            (o \in DOMAIN prev.served /\ prev.served[o].ok) =>
                /\ resolved[k].src = "cache"
                /\ resolved[k].page = prev.served[o].body
                /\ o \notin Requested

C3_CacheHit == [][C3_HitStep]_vars /\ []C3_AcrossRuns

\* A cache-enabled run resolved two pages that the previous run had fetched,
\* both from the cache, and made no request.
C3_Witness ==
    /\ ~skip_cache /\ prev # NoPrev
    /\ Len(resolved) = 2
    /\ \A k \in 1..2 :
          /\ resolved[k].src = "cache"
          /\ resolved[k].offset \in DOMAIN prev.served
          /\ prev.served[resolved[k].offset].ok
    /\ reqs = <<>>

\* C4: with skip_cache = true the loop never reads the cache. At every
\* offset it reaches it issues a request, entry or no entry; every page it
\* has resolved came from the network, and the cache entry of its offset is
\* the body fetched in this run; the write of a fetched body makes the entry
\* equal to it, whatever was there.
C4_RequestStep ==
    (pc = "loop" /\ skip_cache) =>
        /\ pc' = "await"
        /\ reqs' = Append(reqs, offset)
        /\ inFlight' = {offset}
        /\ page_data' = page_data

C4_WriteStep ==
    (pc = "persist" /\ pc' = "accumulate") =>
        /\ offset \in DOMAIN cache'
        /\ cache'[offset] = page_data
        /\ page_data' = page_data

C4_Resolved ==
    skip_cache =>
        /\ Len(resolved) <= Len(reqs)
        /\ \A k \in 1..Len(resolved) :
              LET o == resolved[k].offset IN
              /\ resolved[k].src = "net"
              /\ reqs[k] = o
              /\ served[o] = [ok |-> TRUE, body |-> resolved[k].page]
              /\ o \in DOMAIN cache
              /\ cache[o] = resolved[k].page

C4_SkipCache == [][C4_RequestStep /\ C4_WriteStep]_vars /\ []C4_Resolved

\* A skip-cache run fetched offset 0 although the previous run had left an
\* entry for it, and the entry now holds the new body, which differs.
C4_Witness ==
    /\ skip_cache /\ prev # NoPrev
    /\ 0 \in DOMAIN prev.served /\ prev.served[0].ok
    /\ Len(resolved) >= 1
    /\ resolved[1].src = "net"
    /\ resolved[1].page # prev.served[0].body
    /\ cache[0] = resolved[1].page

\* C5: when the request for offset O fails, that step ends the loop in
\* ABORTED and returns to main with the accumulator as it was; and whenever
\* the outcome is ABORTED, fetch_all_pages has returned (nothing was raised)
\* and the list is the concatenation of the pages of the offsets below O,
\* which is the empty list when O = 0.
C5_ErrorStep ==
    (pc = "await" /\ offset \in DOMAIN served' /\ ~served'[offset].ok) =>
        /\ pc' = "returned"
        /\ outcome' = "ABORTED"
        /\ all_data' = all_data
        /\ offset' = offset

C5_Aborted ==
    outcome = "ABORTED" =>
        /\ Returned
        /\ offset \in DOMAIN served /\ ~served[offset].ok
        /\ Len(resolved) * 100 = offset
        /\ \A k \in 1..Len(resolved) : resolved[k].offset = (k - 1) * 100
        /\ all_data = ItemsOf(resolved, Len(resolved))
        /\ (offset = 0) => (all_data = <<>>)

C5_FetchError == [][C5_ErrorStep]_vars /\ []C5_Aborted

\* The request for offset 100 failed after a page of 100 records at offset
\* 0: fetch_all_pages returned those 100.
C5_Witness ==
    /\ outcome = "ABORTED" /\ pc = "returned"
    /\ offset = 100
    /\ Len(all_data) = 100
    /\ all_data = resolved[1].page.items

\* C6: in main, once fetch_all_pages has returned (DONE or ABORTED), the
\* next step is save_json of the returned list and the one after it
\* compress_json of the file just saved; each is called at most once in a
\* run, compress_json never before save_json, neither while the loop runs
\* or after an uncaught exception; and at the end of main both have been
\* called once, the output file holding the returned list, which after a
\* fetch error is the partial one.
C6_SaveStep ==
    (pc = "returned") =>
        /\ pc' = "saved"
        /\ outcome \in {"DONE", "ABORTED"}
        /\ saveCalls' = 1 /\ compressCalls' = 0
        /\ outFile' = JsonDump(all_data)
        /\ all_data' = all_data
        /\ gzFile' = gzFile

C6_CompressStep ==
    (pc = "saved") =>
        /\ pc' = "done"
        /\ saveCalls' = 1 /\ compressCalls' = 1
        /\ gzFile' = CompressBytes(outFile)
        /\ outFile' = outFile
        /\ all_data' = all_data

C6_Order ==
    /\ saveCalls \in {0, 1} /\ compressCalls \in {0, 1}
    /\ compressCalls <= saveCalls
    /\ (pc \in {"loop", "await", "persist", "accumulate", "crashed", "returned"})
          => (saveCalls = 0 /\ compressCalls = 0)
    /\ (pc = "saved") => (saveCalls = 1 /\ compressCalls = 0)
    /\ (pc = "done") => (saveCalls = 1 /\ compressCalls = 1)
    /\ (pc \in {"saved", "done"}) =>
          /\ outcome \in {"DONE", "ABORTED"}
          /\ outFile = JsonDump(all_data)
          /\ all_data = ItemsOf(resolved, Len(resolved))
    /\ (pc = "done") => (gzFile = CompressBytes(outFile))

ServerUnchanged ==
    prev # NoPrev =>
    \A o \in (DOMAIN served) \cap (DOMAIN prev.served) : served[o] = prev.served[o]

\* This run is a re-run with the cache enabled of a run of main that ran to
\* its end, and has written its output file.
RerunSaved == pc = "saved" /\ ~skip_cache /\ prev # NoPrev

\* the offset at which the previous run's request failed
PrevFailed == {o \in DOMAIN prev.served : ~prev.served[o].ok}

C7_PrevCovered ==
    /\ prev # NoPrev
    /\ \/ prev.outcome = "DONE"
       \/ prev.outcome = "ABORTED" /\ PrevFailed \cap DOMAIN cache = {}

C8_NeverMutated_AsStated ==
    [][\A o \in DOMAIN cache : o \in DOMAIN cache' /\ cache'[o] = cache[o]]_vars

\* C8 as amended: no step removes a cache entry; no step of a run with
\* skip_cache = false changes the content of an existing entry; the only
\* step that changes one is the cache write of a run with skip_cache = true,
\* which replaces the entry of the offset just fetched by the fetched body.
C8_EntryStep ==
    \A o \in DOMAIN cache :
        /\ o \in DOMAIN cache'
        /\ (cache'[o] # cache[o]) =>
              /\ skip_cache
              /\ pc = "persist"
              /\ o = offset
              /\ cache'[o] = page_data

C8_NeverDeleted == [][C8_EntryStep]_vars

\* A run with skip_cache = true has replaced the entry of offset 0 that the
\* previous run wrote by a different body, and the entry of offset 100 is
\* still the one the previous run wrote.
C8_Witness ==
    /\ skip_cache /\ prev # NoPrev
    /\ pc = "accumulate" /\ offset = 0
    /\ {0, 100} \subseteq DOMAIN prev.served
    /\ prev.served[0].ok /\ prev.served[100].ok
    /\ cache[0] # prev.served[0].body
    /\ cache[100] = prev.served[100].body

\* C9: requests are sequential and go only as far as needed. At most one
\* request is in flight, and only while the loop awaits it; a request is
\* sent only when none is in flight, for the current offset; the offsets
\* requested increase; every request for an offset above 0 comes after the
\* page 100 below it was resolved with at least 100 records; no request is
\* for an offset beyond a resolved page with fewer than 100 records or
\* without `items`; and a skip-cache run over pages of 100 then 50 records
\* makes exactly the requests for 0 and 100.
C9_SendStep ==
    (Len(reqs') > Len(reqs)) =>
        /\ inFlight = {}
        /\ reqs' = Append(reqs, offset)
        /\ inFlight' = {offset}

C9_Requests ==
    /\ Cardinality(inFlight) <= 1
    /\ (pc = "await") => (inFlight = {offset} /\ reqs[Len(reqs)] = offset)
    /\ (pc # "await") => (inFlight = {})
    /\ \A i \in 1..Len(reqs) : \A j \in 1..Len(reqs) : (i < j) => (reqs[i] < reqs[j])
    /\ \A i \in 1..Len(reqs) :
          (reqs[i] > 0) =>
              \E k \in 1..Len(resolved) :
                  /\ resolved[k].offset = reqs[i] - 100
                  /\ "items" \in DOMAIN resolved[k].page
                  /\ Len(resolved[k].page.items) >= 100
    /\ \A k \in 1..Len(resolved) :
          (("items" \notin DOMAIN resolved[k].page) \/ Len(resolved[k].page.items) < 100)
              => \A i \in 1..Len(reqs) : reqs[i] <= resolved[k].offset
    /\ (/\ skip_cache /\ Returned
        /\ Len(resolved) = 2
        /\ Len(resolved[1].page.items) = 100
        /\ Len(resolved[2].page.items) = 50) => (reqs = <<0, 100>>)

C9_Sequential == [][C9_SendStep]_vars /\ []C9_Requests

\* A skip-cache run over a page of 100 and a page of 50 has ended, having
\* made two requests.
C9_Witness ==
    /\ skip_cache /\ pc = "done" /\ outcome = "DONE"
    /\ Len(resolved) = 2
    /\ Len(resolved[1].page.items) = 100
    /\ Len(resolved[2].page.items) = 50
    /\ Len(reqs) = 2

\* C10: round trip. For the bytes save_json wrote, compress_json leaves the
\* input file as it was and writes a gzip file that is not the input itself,
\* and decompress_json of that file writes exactly the bytes save_json wrote.
C10_CompressStep ==
    (pc = "files_saved") => (outFile' = outFile /\ gzFile' # outFile)

C10_State ==
    /\ (pc \in {"files_saved", "files_compressed", "files_decompressed"}) =>
          /\ Len(outFile) >= 2
          /\ outFile[1] = 91 /\ outFile[Len(outFile)] = 93
    /\ (pc \in {"files_compressed", "files_decompressed"}) => GzipValid(gzFile)
    /\ (pc = "files_decompressed") => (plainFile = outFile)

C10_RoundTrip == [][C10_CompressStep]_vars /\ []C10_State

\* The round trip of a list of three records, written on five lines.
C10_Witness ==
    /\ pc = "files_decompressed"
    /\ Len(all_data) = 3
    /\ Cardinality({i \in 1..Len(outFile) : outFile[i] = 10}) = 4
    /\ plainFile = outFile

\* the pages of the run whose records are in the accumulator: all resolved
\* ones, but for the last while it waits at the `extend` line
Accumulated ==
    IF pc = "accumulate" \/ (pc = "crashed" /\ Len(resolved) > 0
                              /\ "items" \notin DOMAIN LastResolved.page)
    THEN Len(resolved) - 1
    ELSE Len(resolved)

\* C11: a newly fetched page is persisted before it is accumulated. The
\* step that appends the records of a page fetched from the network finds
\* the cache entry of its offset already holding the whole body the server
\* sent; and in every state, each network-fetched page whose records are in
\* the accumulator has a cache entry equal to the whole fetched body (its
\* other fields included), which is also what the server answered.
C11_ExtendStep ==
    (/\ pc = "accumulate"
     /\ all_data' # all_data
     /\ LastResolved.src = "net") =>
        /\ offset \in DOMAIN cache
        /\ cache[offset] = page_data
        /\ served[offset] = [ok |-> TRUE, body |-> page_data]
        /\ cache' = cache
        /\ all_data' = all_data \o page_data.items

C11_Persisted ==
    /\ Accumulated \in 0..Len(resolved)
    /\ \A k \in 1..Accumulated :
          /\ "items" \in DOMAIN resolved[k].page
          /\ (resolved[k].src = "net") =>
                /\ resolved[k].offset \in DOMAIN cache
                /\ cache[resolved[k].offset] = resolved[k].page
                /\ served[resolved[k].offset] = [ok |-> TRUE, body |-> resolved[k].page]
                /\ DOMAIN cache[resolved[k].offset] = {"meta", "items"}
    /\ all_data = ItemsOf(resolved, Accumulated)

C11_PersistBeforeAccumulate == [][C11_ExtendStep]_vars /\ []C11_Persisted

\* The 100 records of the page fetched at offset 0 are in the accumulator,
\* the loop is at offset 100, and the cache entry of offset 0 is the whole
\* body that was fetched.
C11_Witness ==
    /\ pc = "loop" /\ offset = 100
    /\ Len(resolved) = 1 /\ resolved[1].src = "net"
    /\ Len(all_data) = 100
    /\ cache[0] = served[0].body
    /\ cache[0].meta = 0

\* the step in which the awaited request of the current offset fails
FetchFails == pc = "await" /\ offset \in DOMAIN served' /\ ~served'[offset].ok

\* C12: a failed fetch changes nothing but the driver's control state. The
\* step in which the request for the current offset fails leaves the cache
\* (the entry of that offset included, present or not), the accumulator, the
\* offset, the list of requests sent and the output files as they were, and
\* takes the driver to ABORTED and back to main; from ABORTED on, the run
\* sends no further request and writes no cache entry, and the failed offset
\* was requested once.
C12_FailStep ==
    FetchFails =>
        /\ cache' = cache
        /\ all_data' = all_data
        /\ offset' = offset
        /\ reqs' = reqs
        /\ resolved' = resolved
        /\ outFile' = outFile /\ gzFile' = gzFile
        /\ inFlight' = {}
        /\ outcome' = "ABORTED"
        /\ pc' = "returned"

C12_AfterStep ==
    (outcome = "ABORTED" /\ outcome' = "ABORTED") =>
        /\ reqs' = reqs
        /\ inFlight' = {}
        /\ cache' = cache
        /\ all_data' = all_data

C12_Aborted ==
    (outcome = "ABORTED") =>
        /\ Returned
        /\ inFlight = {}
        /\ Len(reqs) > 0 /\ reqs[Len(reqs)] = offset
        /\ Cardinality({i \in 1..Len(reqs) : reqs[i] = offset}) = 1
        /\ served[offset] = [ok |-> FALSE]
        /\ \A k \in 1..Len(resolved) : resolved[k].offset # offset

C12_FailedFetch == [][C12_FailStep /\ C12_AfterStep]_vars /\ []C12_Aborted

\* A skip-cache run was ABORTED at offset 100 and main has ended: the entry
\* of offset 100 that the previous run wrote is still in the cache, the 100
\* records of the first page are the result, and two requests were sent.
C12_Witness ==
    /\ pc = "done" /\ outcome = "ABORTED" /\ skip_cache
    /\ offset = 100
    /\ reqs = <<0, 100>>
    /\ Len(all_data) = 100
    /\ prev # NoPrev /\ 100 \in DOMAIN prev.served /\ prev.served[100].ok
    /\ cache[100] = prev.served[100].body

\* no run of main is in progress
BetweenRuns == pc \in {"idle", "done", "crashed"}

\* C13: throughout a run the offset is a non-negative multiple of 100; the
\* run starts at offset 0; within the run the offset changes only by +100,
\* and only at the end of a loop iteration whose page had at least 100
\* records; the k-th page resolved is that of offset 100 * (k - 1), so no
\* offset is resolved twice, by cache read or network fetch, and no offset
\* is requested twice or requested after it was read from the cache.
C13_OffsetStep ==
    /\ BetweenRuns => (offset' = 0 /\ resolved' = <<>> /\ reqs' = <<>>)
    /\ (~BetweenRuns) =>
          /\ offset' \in {offset, offset + 100}
          /\ (offset' # offset) =>
                /\ pc = "accumulate" /\ pc' = "loop"
                /\ Len(page_data.items) >= 100
                /\ LastResolved.offset = offset

C13_Offsets ==
    /\ offset \in Nat
    /\ offset % 100 = 0
    /\ \A k \in 1..Len(resolved) : resolved[k].offset = 100 * (k - 1)
    /\ \A k \in 1..Len(resolved) : resolved[k].offset <= offset
    /\ \A i \in 1..Len(reqs) : reqs[i] % 100 = 0 /\ reqs[i] <= offset
    /\ \A o \in 0..offset :
          Cardinality({k \in 1..Len(resolved) : resolved[k].offset = o})
            + Cardinality({k \in 1..Len(resolved) :
                             resolved[k].offset = o /\ resolved[k].src = "cache"})
            + Cardinality({i \in 1..Len(reqs) : reqs[i] = o})
          <= 2

C13_OffsetDiscipline == [][C13_OffsetStep]_vars /\ []C13_Offsets

\* The run read offset 0 from the cache and fetched offset 100 from the
\* network: two offsets, each resolved once, one request.
C13_Witness ==
    /\ pc = "accumulate" /\ offset = 100
    /\ Len(resolved) = 2
    /\ resolved[1].src = "cache" /\ resolved[1].offset = 0
    /\ resolved[2].src = "net" /\ resolved[2].offset = 100
    /\ reqs = <<100>>

\* the run ended in the cache write of the page just fetched: the page of
\* the current offset was served but is not among the resolved ones
PersistCrashed ==
    /\ pc = "crashed"
    /\ offset \in DOMAIN served /\ served[offset].ok
    /\ \A k \in 1..Len(resolved) : resolved[k].offset # offset

\* C14: a failure of the cache write is not a fetch error. A step from the
\* cache write that does not complete the write ends the run with an
\* uncaught exception: the driver is not ABORTED, control does not return
\* to main, and nothing else changes. A run that ended so never calls
\* save_json or compress_json and leaves the output files as they were; the
\* only step after it is the start of another run. Control is back in main
\* only after DONE or ABORTED.
C14_FailStep ==
    (pc = "persist" /\ pc' # "accumulate") =>
        /\ outcome' = "FATAL"
        /\ pc' = "crashed"
        /\ all_data' = all_data
        /\ cache' = cache
        /\ outFile' = outFile /\ gzFile' = gzFile
        /\ saveCalls' = 0 /\ compressCalls' = 0

C14_CrashedStep ==
    (pc = "crashed") =>
        /\ pc' = "loop" /\ outcome' = "FETCHING"
        /\ outFile' = outFile /\ gzFile' = gzFile

C14_Fatal ==
    /\ (outcome = "FATAL") <=> (pc = "crashed")
    /\ PersistCrashed =>
          /\ outcome = "FATAL"
          /\ saveCalls = 0 /\ compressCalls = 0
    /\ Returned => outcome \in {"DONE", "ABORTED"}
    /\ (prev # NoPrev /\ pc \in {"loop", "await", "persist", "accumulate", "crashed"})
          => outFile = prev.outFile

C14_PersistFailure == [][C14_FailStep /\ C14_CrashedStep]_vars /\ []C14_Fatal

\* The cache write of the page fetched at offset 100 failed: the run ended
\* with 100 records accumulated that were saved nowhere, and the output file
\* is still the one the previous run wrote.
C14_Witness ==
    /\ PersistCrashed /\ offset = 100
    /\ "items" \in DOMAIN page_data
    /\ Len(all_data) = 100
    /\ prev # NoPrev
    /\ outFile = prev.outFile
    /\ outFile # JsonDump(all_data)
    /\ saveCalls = 0

\* ------------------------------------------------------------ two executions from one cache

\* the offsets the model walks
Offsets == {k * OFFSET_STEP : k \in 0..(MaxPages - 1)}

\* Sizes of the pages in the comparison of two executions: a short page and
\* a full one.
MaskSizes == {50, PAGE_LIMIT}

MaskBodies(o) == {PageBody(o, n) : n \in MaskSizes}

\* what a server may answer at offset o: an error or a page
MaskResponses(o) == {ErrResponse} \cup {OkResponse(b) : b \in MaskBodies(o)}

\* Cache contents at the start: files page_0 .. page_k for some k (a run
\* writes the file of an offset only after the files below it exist), each
\* holding a short or a full page.
MaskCaches ==
    UNION {{c \in [{o \in Offsets : o < top} -> UNION {MaskBodies(o) : o \in Offsets}] :
                \A o \in DOMAIN c : c[o] \in MaskBodies(o)} :
           top \in Offsets \cup {MaxOffset + OFFSET_STEP}}

\* a server: what it answers at each offset
MaskServers ==
    {s \in [Offsets -> UNION {MaskResponses(o) : o \in Offsets}] :
        \A o \in Offsets : s[o] \in MaskResponses(o)}

\* Two executions of fetch_all_pages(skip_cache = False), one after the
\* other, each from the same cache contents cache0; the servers they talk
\* to differ at most at the offsets that have an entry in cache0. In this
\* specification `prev` holds cache0, the server of the execution under
\* way, the server of the other one, and what the first execution came to.
InitMask ==
    /\ \E c \in MaskCaches : \E s \in MaskServers : \E t \in MaskServers :
          /\ \A o \in Offsets \ DOMAIN c : s[o] = t[o]
          /\ cache = c
          /\ prev = [cache0 |-> c, server |-> s, other |-> t, first |-> NoPrev]
    /\ pc = "loop"
    /\ skip_cache = FALSE
    /\ offset = 0
    /\ all_data = <<>>
    /\ page_data = NoPage
    /\ outcome = "FETCHING"
    /\ inFlight = {}
    /\ reqs = <<>>
    /\ resolved = <<>>
    /\ served = EmptyFn
    /\ outFile = <<>>
    /\ gzFile = <<>>
    /\ plainFile = <<>>
    /\ saveCalls = 0
    /\ compressCalls = 0

\* the server of this execution answers the request with a page
MaskFetchOk ==
    /\ pc = "await"
    /\ prev.server[offset].ok
    /\ FetchOk(prev.server[offset].body)

\* the server of this execution answers the request with an error
MaskFetchError ==
    /\ pc = "await"
    /\ ~prev.server[offset].ok
    /\ FetchError

\* the loop has gone as far as the model follows it
MaskAtCap ==
    /\ pc = "accumulate"
    /\ HasItems(page_data) /\ ~IsLastPage(page_data)
    /\ NextOffset(offset) > MaxOffset

\* The first execution is over: the cache is put back to cache0 and the
\* second execution starts, against the other server.
MaskSecond ==
    /\ pc = "returned" \/ MaskAtCap
    /\ prev.first = NoPrev
    /\ prev' = [cache0 |-> prev.cache0, server |-> prev.other, other |-> prev.server,
                first |-> [outcome |-> outcome, result |-> all_data, reqs |-> reqs,
                           resolved |-> resolved]]
    /\ cache' = prev.cache0
    /\ all_data' = <<>>
    /\ offset' = 0
    /\ page_data' = NoPage
    /\ outcome' = "FETCHING"
    /\ reqs' = <<>>
    /\ resolved' = <<>>
    /\ served' = EmptyFn
    /\ pc' = "loop"
    /\ UNCHANGED <<skip_cache, inFlight, outFile, gzFile, plainFile, saveCalls,
                   compressCalls>>

NextMask ==
    \/ CacheRead
    \/ SendRequest
    \/ MaskFetchOk
    \/ MaskFetchError
    \/ PersistPage
    \/ AccumulateLast
    \/ AccumulateMore
    \/ MaskSecond

SpecMask == InitMask /\ [][NextMask]_vars

\* the second execution has ended, or has gone as far as the model follows it
C15_SecondEnded ==
    /\ prev.first # NoPrev
    /\ \/ pc = "returned"
       \/ pc = "accumulate" /\ offset = MaxOffset /\ Len(page_data.items) >= 100

\* C15: a stale cache masks the server. Of two executions with skip_cache =
\* false that start from the same cache contents, against servers that
\* differ only at offsets that have a cache entry at the start, the second
\* ends as the first did, with the same item list, the same pages resolved
\* from the same sources and the same requests sent; neither sends a request
\* for an offset that has an entry at the start; and an execution that comes
\* to an offset whose entry holds fewer than 100 records ends there in DONE
\* without a request for that offset or any beyond, whatever the server
\* holds there.
C15_StaleCacheMasks ==
    /\ ~skip_cache
    /\ \A i \in 1..Len(reqs) : reqs[i] \notin DOMAIN prev.cache0
    /\ C15_SecondEnded =>
          /\ outcome = prev.first.outcome
          /\ all_data = prev.first.result
          /\ resolved = prev.first.resolved
          /\ reqs = prev.first.reqs
    /\ (/\ pc \in {"accumulate", "returned"}
        /\ offset \in DOMAIN prev.cache0
        /\ Len(prev.cache0[offset].items) < 100) =>
          /\ page_data = prev.cache0[offset]
          /\ \A i \in 1..Len(reqs) : reqs[i] < offset
          /\ (pc = "returned") =>
                /\ outcome = "DONE"
                /\ all_data = ItemsOf(resolved, Len(resolved))
                /\ LastResolved.src = "cache"

\* The cache held a page of 50 records at offset 0; the two servers answer
\* differently at offset 0, this one with a full page there and a page at
\* offset 100; the second execution ended in DONE with the 50 cached records
\* and no request, as the first did.
C15_Witness ==
    /\ C15_SecondEnded /\ pc = "returned" /\ outcome = "DONE"
    /\ Len(prev.cache0[0].items) = 50
    /\ prev.server[0] # prev.other[0]
    /\ prev.server[0].ok /\ Len(prev.server[0].body.items) = 100
    /\ prev.server[100].ok
    /\ reqs = <<>>
    /\ all_data = prev.cache0[0].items
    /\ all_data = prev.first.result

\* C16 as stated: once the cache entry of an offset holds a payload without
\* `items`, every later run with skip_cache = false that reaches the offset
\* fails there again: the entry stays one without `items` in every later
\* step.
C16_PoisonedForever_AsStated ==
    [][\A o \in DOMAIN cache :
          ("items" \notin DOMAIN cache[o]) =>
              (o \in DOMAIN cache' /\ "items" \notin DOMAIN cache'[o])]_vars

\* C16 as amended: the fetched payload is written to the cache whatever its
\* fields, before `items` is read; a page without `items` then ends the run
\* with an uncaught exception (not ABORTED, control not back in main), the
\* entry staying as written; a run with skip_cache = false that comes to an
\* offset whose entry lacks `items` reads the entry, sends no request for
\* the offset and ends the same way; and such an entry stays until the cache
\* write of a run with skip_cache = true that fetched the offset again
\* replaces it.
C16_PersistStep ==
    (pc = "persist" /\ pc' = "accumulate") =>
        /\ offset \in DOMAIN cache'
        /\ cache'[offset] = page_data
        /\ all_data' = all_data

C16_KeyErrorStep ==
    (pc = "accumulate" /\ "items" \notin DOMAIN page_data) =>
        /\ outcome' = "FATAL"
        /\ pc' = "crashed"
        /\ all_data' = all_data
        /\ cache' = cache
        /\ cache[offset] = page_data

C16_ReadStep ==
    (/\ pc = "loop" /\ ~skip_cache
     /\ offset \in DOMAIN cache
     /\ "items" \notin DOMAIN cache[offset]) =>
        /\ page_data' = cache[offset]
        /\ pc' = "accumulate"
        /\ reqs' = reqs
        /\ cache' = cache

C16_EntryStep ==
    \A o \in DOMAIN cache :
        ("items" \notin DOMAIN cache[o] /\ cache'[o] # cache[o]) =>
            /\ skip_cache
            /\ pc = "persist"
            /\ offset = o

C16_Crashed ==
    (/\ pc = "crashed"
     /\ Len(resolved) > 0
     /\ "items" \notin DOMAIN LastResolved.page) =>
        /\ outcome = "FATAL"
        /\ LastResolved.offset = offset
        /\ cache[offset] = LastResolved.page
        /\ saveCalls = 0 /\ compressCalls = 0
        /\ (LastResolved.src = "net") => served[offset] = [ok |-> TRUE, body |-> cache[offset]]
        /\ (LastResolved.src = "cache") =>
              /\ ~skip_cache
              /\ \A i \in 1..Len(reqs) : reqs[i] # offset

C16_PoisonedCache ==
    /\ [][C16_PersistStep /\ C16_KeyErrorStep /\ C16_ReadStep /\ C16_EntryStep]_vars
    /\ []C16_Crashed

\* A run with skip_cache = false read a full page at offset 0 and a payload
\* without `items` at offset 100 from the cache and ended with an uncaught
\* exception, without a request.
C16_Witness ==
    /\ pc = "crashed" /\ ~skip_cache
    /\ offset = 100
    /\ Len(resolved) = 2
    /\ resolved[2].src = "cache"
    /\ "items" \notin DOMAIN resolved[2].page
    /\ reqs = <<>>
    /\ Len(all_data) = 100

\* fetch_all_pages is inside its loop
InLoop == pc \in {"loop", "await", "persist", "accumulate"}

\* C17: the loop is left only through a page of fewer than 100 records
\* (DONE), a caught fetch error (ABORTED) or an uncaught exception; so while
\* every resolved page has at least 100 records and no fetch has failed the
\* driver is neither DONE nor ABORTED; a page of 100 records or more, one of
\* more than 100 included, is appended whole, leaves the driver in FETCHING
\* and takes the loop to the next offset, at every offset the model follows.
C17_LeaveStep ==
    (InLoop /\ ~InLoop') =>
        \/ /\ pc = "accumulate"
           /\ "items" \in DOMAIN page_data
           /\ Len(page_data.items) < 100
           /\ outcome' = "DONE" /\ pc' = "returned"
        \/ /\ pc = "await"
           /\ served'[offset] = [ok |-> FALSE]
           /\ outcome' = "ABORTED" /\ pc' = "returned"
        \/ /\ pc \in {"persist", "accumulate"}
           /\ outcome' = "FATAL" /\ pc' = "crashed"

C17_FullPageStep ==
    (/\ pc = "accumulate"
     /\ "items" \in DOMAIN page_data
     /\ Len(page_data.items) >= 100
     /\ pc' # pc) =>
        /\ all_data' = all_data \o page_data.items
        /\ Len(all_data') = Len(all_data) + Len(page_data.items)
        /\ outcome' = "FETCHING"
        /\ offset' = offset + 100
        /\ pc' = "loop"

C17_Outcome ==
    /\ (outcome = "DONE") =>
          /\ Len(resolved) > 0
          /\ Len(LastResolved.page.items) < 100
    /\ (outcome = "ABORTED") => (\E o \in DOMAIN served : ~served[o].ok)
    /\ (/\ InLoop \/ Returned
        /\ \A k \in 1..Len(resolved) :
              "items" \in DOMAIN resolved[k].page /\ Len(resolved[k].page.items) >= 100
        /\ \A o \in DOMAIN served : served[o].ok) => (outcome = "FETCHING" /\ InLoop)

C17_GoesOn ==
    \A o \in Offsets \ {MaxOffset} :
        (/\ pc = "accumulate" /\ offset = o
         /\ "items" \in DOMAIN page_data
         /\ Len(page_data.items) >= 100)
            ~> (pc = "loop" /\ offset = o + 100 /\ outcome = "FETCHING")

C17_LoopExits ==
    /\ [][C17_LeaveStep /\ C17_FullPageStep]_vars
    /\ []C17_Outcome
    /\ C17_GoesOn

\* A page of 101 records at offset 0 was appended whole and the loop has
\* gone on to offset 100, the driver still FETCHING.
C17_Witness ==
    /\ pc = "loop" /\ offset = 100 /\ outcome = "FETCHING"
    /\ Len(resolved) = 1
    /\ Len(resolved[1].page.items) = 101
    /\ all_data = resolved[1].page.items
    /\ Len(all_data) = 101

====
